---- MODULE Spec2Model ----
(***************************************************************************)
(* Model of the flare-ai-rag pipeline: the query router (router/router.py, *)
(* utils/parser_utils.py), the collection indexer                          *)
(* (retriever/qdrant_collection.py), the retriever                         *)
(* (retriever/qdrant_retriever.py), the responders                         *)
(* (responder/responder.py), the Gemini provider (ai/gemini.py), the       *)
(* prompt templates (prompts/schemas.py) and the Discord message handler   *)
(* (discord/service.py).                                                   *)
(*                                                                         *)
(* Python strings whose characters matter (the classification and the      *)
(* configured options) are sequences of one-character strings, so that     *)
(* str.upper is computed character by character.                           *)
(***************************************************************************)
EXTENDS Integers, Sequences, FiniteSets, TLC

VARIABLES
    df_docs,     \* the corpus read from docs.csv when the process starts
    route,       \* the last route_query invocation: its inputs and its outcome
    collection,  \* the Qdrant collection: point id -> payload
    build,       \* the running / last generate_collection invocation; `dropped`
                 \* is the number of points its recreate discarded
    store,       \* the store_discord_message call that completed last, until
                 \* a generate_collection starts
    search,      \* the semantic_search call that completed last, until another
                 \* operation on the index starts
    nbuilds,     \* number of generate_collection runs started
    nstores,     \* number of store_discord_message calls made
    nforeign,    \* number of points written by other users of the index
    respond,     \* the last generate_response invocation, until another
                 \* operation of the pipeline starts
    ai,          \* the two GeminiProvider objects main.py constructs: their
                 \* chat session, chat_history and model
    fmt,         \* the last Prompt.format invocation
    components,  \* the fields of the Router, Retriever and Responder objects
    requests,    \* the invocations in flight on those objects, one per slot
    message      \* the last on_message invocation of the Discord service

vars == <<df_docs, route, collection, build, store, search, nbuilds, nstores,
          nforeign, respond, ai, fmt, components, requests, message>>

(***************************************************************************)
(* Bounds of the model.                                                    *)
(***************************************************************************)
MaxRows == 3
MaxBuilds == 2
MaxStores == 2
MaxTopK == 3
MaxForeign == 1
MaxTurns == 2
MaxRequests == 2

(***************************************************************************)
(* str.upper                                                               *)
(***************************************************************************)
LowerCase == <<"a", "b", "c", "d", "e", "f", "g", "h", "i", "j", "k", "l", "m",
               "n", "o", "p", "q", "r", "s", "t", "u", "v", "w", "x", "y", "z">>
UpperCase == <<"A", "B", "C", "D", "E", "F", "G", "H", "I", "J", "K", "L", "M",
               "N", "O", "P", "Q", "R", "S", "T", "U", "V", "W", "X", "Y", "Z">>

UpperChar(c) ==
    IF \E i \in DOMAIN LowerCase : LowerCase[i] = c
    THEN UpperCase[CHOOSE i \in DOMAIN LowerCase : LowerCase[i] = c]
    ELSE c

\* A plausible slip: the extracted value is compared as it came.
upper_Unchanged(s) == s

upper(s) == [i \in DOMAIN s |-> UpperChar(s[i])]

(***************************************************************************)
(* RouterConfig.  load() always yields the upper-case literals; the frozen *)
(* dataclass can also be constructed directly with any three strings.      *)
(***************************************************************************)
ANSWER == <<"A", "N", "S", "W", "E", "R">>
CLARIFY == <<"C", "L", "A", "R", "I", "F", "Y">>
REJECT == <<"R", "E", "J", "E", "C", "T">>

RouterConfig(a, c, r) ==
    [answer_option |-> a, clarify_option |-> c, reject_option |-> r]

RouterConfig_load == RouterConfig(ANSWER, CLARIFY, REJECT)

RouterConfigs ==
    { RouterConfig_load,
      RouterConfig(<<"A", "n", "s", "w", "e", "r">>,
                   <<"C", "l", "a", "r", "i", "f", "y">>,
                   <<"R", "e", "j", "e", "c", "t">>),
      RouterConfig(<<"Y", "E", "S">>, <<"A", "S", "K">>, <<"N", "O">>) }

valid_options(cfg) ==
    {cfg.answer_option, cfg.clarify_option, cfg.reject_option}

(***************************************************************************)
(* Responses of the generation capability.  A response text is either a    *)
(* bare body or the body wrapped in a ```json fence; the body is what      *)
(* json.loads sees of it.                                                  *)
(***************************************************************************)
NoStr == <<>>

ClassificationStrings ==
    { ANSWER, CLARIFY, REJECT,
      <<"a", "n", "s", "w", "e", "r">>, <<"A", "n", "s", "w", "e", "r">>,
      <<"a", "N", "s", "W", "e", "R">>,
      <<"c", "l", "a", "r", "i", "f", "y">>, <<"C", "l", "a", "r", "i", "f", "y">>,
      <<"r", "e", "j", "e", "c", "t">>, <<"R", "e", "j", "e", "c", "t">>,
      <<"y", "e", "s">>, <<"Y", "E", "S">>, <<"a", "s", "k">>, <<"n", "o">>,
      <<"M", "A", "Y", "B", "E">>, <<"m", "a", "y", "b", "e">>,
      <<"A", "N", "S", "W", "E", "R", " ">>,
      NoStr }

\* json: "invalid" (not JSON), "array", "string", "number" (JSON, not an object),
\*       "object".  For an object: key says whether `classification` is present,
\*       ctype the JSON type of its value and cval the value when a string.
Body(json, key, ctype, cval) ==
    [json |-> json, key |-> key, ctype |-> ctype, cval |-> cval]

Bodies ==
    { Body(j, FALSE, "none", NoStr) : j \in {"invalid", "array", "string", "number"} }
    \cup { Body("object", FALSE, "none", NoStr) }
    \cup { Body("object", TRUE, t, NoStr) : t \in {"number", "null", "array"} }
    \cup { Body("object", TRUE, "string", s) : s \in ClassificationStrings }

Texts == [fenced : BOOLEAN, body : Bodies]

\* What the client call yields: a transport failure, or a response text.
ClientOutcomes ==
    { [ok |-> FALSE, text |-> [fenced |-> FALSE, body |-> Body("invalid", FALSE, "none", NoStr)]] }
    \cup { [ok |-> TRUE, text |-> t] : t \in Texts }

(***************************************************************************)
(* utils/parser_utils.py                                                   *)
(***************************************************************************)
\* json.loads: the parsed value, or a raise on text that is not JSON.
json_loads(fenced, body) ==
    IF fenced \/ body.json = "invalid"
    THEN [raised |-> TRUE, value |-> body]
    ELSE [raised |-> FALSE, value |-> body]

\* parse_gemini_response_as_json: the regex takes the inside of a ```json
\* fence when there is one, else the whole text.
parse_gemini_response_as_json(text) == json_loads(FALSE, text.body)

\* parse_chat_response_as_json: the message content goes to json.loads as is.
parse_chat_response_as_json(text) == json_loads(text.fenced, text.body)

Routers == {"GeminiRouter", "QueryRouter"}

parse(impl, text) ==
    IF impl = "GeminiRouter"
    THEN parse_gemini_response_as_json(text)
    ELSE parse_chat_response_as_json(text)

\* no semantic_search has completed since the index was last written
NoSearch ==
    [status |-> "none", top_k |-> 0, hits |-> <<>>, output |-> <<>>, calls |-> <<>>]

(***************************************************************************)
(* ai/gemini.py: GeminiProvider.  The object holds the GenerativeModel, the *)
(* chat session (None until the first send_message) and chat_history.      *)
(***************************************************************************)
SYSTEM_INSTRUCTION == "SYSTEM_INSTRUCTION"

GenerativeModel(model_name, system_instruction) ==
    [model_name |-> model_name, system_instruction |-> system_instruction]

\* self.chat = None
NoChat == [active |-> FALSE, model |-> GenerativeModel("-", "-"),
           history |-> <<>>, turns |-> 0]

\* self.model.start_chat(history=...): a session of that model, seeded
ChatSession(model, history) ==
    [active |-> TRUE, model |-> model, history |-> history, turns |-> 0]

\* __init__
GeminiProvider(model, system_instruction) ==
    [chat |-> NoChat,
     model |-> GenerativeModel(model, system_instruction),
     chat_history |-> <<>>]

\* reset: the history is emptied and the session dropped
reset(self) == [self EXCEPT !.chat_history = <<>>, !.chat = NoChat]

\* reset_model: a new model; the session dropped; the history is one system
\* entry holding the new instruction
reset_model(self, model, new_system_instruction) ==
    [self EXCEPT !.model = GenerativeModel(model, new_system_instruction),
                 !.chat = NoChat,
                 !.chat_history =
                    <<[role |-> "system", content |-> new_system_instruction]>>]

\* A plausible slip: every send_message starts a session.
started_Always(self) ==
    [self EXCEPT !.chat = ChatSession(self.model, self.chat_history)]

\* `if not self.chat: self.chat = self.model.start_chat(history=self.chat_history)`
started(self) ==
    IF ~self.chat.active
    THEN [self EXCEPT !.chat = ChatSession(self.model, self.chat_history)]
    ELSE self

\* send_message: the provider after the call; the session records the
\* exchange when the call succeeds
send_message(self, msg, ok) ==
    IF ok
    THEN [started(self) EXCEPT !.chat.turns = @ + 1]
    ELSE started(self)

\* A plausible slip: generate goes through the chat session.
generate_ViaChat(self, prompt, ok) == send_message(self, prompt, ok)

\* generate: self.model.generate_content(prompt, ...); the provider after
\* the call.  No attribute of self is assigned.
generate(self, prompt, ok) == self

\* The providers main.py constructs: base_ai, which setup_router hands to
\* the GeminiRouter and to the chat endpoint, and the one setup_responder
\* hands to the GeminiResponder.
Providers == {"router", "responder"}

ModelIds == {"gemini-1.5-flash"}

\* A call of a generation capability: the method, and what was sent.
GenCall(op, content) == [op |-> op, content |-> content]

(***************************************************************************)
(* responder/config.py and responder/responder.py.  A prompt is the        *)
(* sequence of the pieces the f-strings concatenate.                       *)
(***************************************************************************)
None == "None"

Model(model_id, max_tokens, temperature) ==
    [model_id |-> model_id, max_tokens |-> max_tokens, temperature |-> temperature]

ResponderConfig(model, system_prompt, query_prompt) ==
    [model |-> model, system_prompt |-> system_prompt, query_prompt |-> query_prompt]

RESPONDER_INSTRUCTION == "RESPONDER_INSTRUCTION"
RESPONDER_PROMPT == "RESPONDER_PROMPT"

\* model_config is the `responder_model` entry of input_parameters.json;
\* .get() yields None for a key that is not there
ResponderConfig_load(model_config) ==
    ResponderConfig(
        Model(model_config["id"],
              IF "max_tokens" \in DOMAIN model_config
              THEN model_config["max_tokens"] ELSE None,
              IF "temperature" \in DOMAIN model_config
              THEN model_config["temperature"] ELSE None),
        RESPONDER_INSTRUCTION, RESPONDER_PROMPT)

ResponderConfigs ==
    { ResponderConfig_load([id |-> "gemini-1.5-flash"]),
      ResponderConfig_load([id |-> "gemini-1.5-flash", max_tokens |-> "200",
                            temperature |-> "0.0"]) }

Responders == {"GeminiResponder", "OpenRouterResponder"}

\* doc.get("metadata", {}).get("filename", f"Doc{idx}"): .get on a mapping;
\* a metadata that is a str has no .get
identifier(doc, idx) ==
    LET metadata == IF "metadata" \in DOMAIN doc
                    THEN doc["metadata"]
                    ELSE [type |-> "dict", value |-> <<>>]
    IN IF metadata.type # "dict"
       THEN [raised |-> TRUE, value |-> ""]
       ELSE IF "filename" \in DOMAIN metadata.value
            THEN [raised |-> FALSE, value |-> metadata.value["filename"]]
            ELSE [raised |-> FALSE, value |-> "Doc" \o ToString(idx)]

\* context after the first n documents of the enumerate(..., start=1) loop
RECURSIVE context(_, _)
context(retrieved_documents, n) ==
    IF n = 0
    THEN [raised |-> FALSE, value |-> <<"List of retrieved documents:\n">>]
    ELSE LET before == context(retrieved_documents, n - 1)
             doc == retrieved_documents[n]
             id == identifier(doc, n)
         IN IF before.raised THEN before
            ELSE IF id.raised THEN [raised |-> TRUE, value |-> before.value]
            ELSE [raised |-> FALSE,
                  value |-> before.value \o
                     <<"Document ", id.value, ":\n",
                       IF "text" \in DOMAIN doc THEN doc["text"] ELSE "", "\n\n">>]

\* prompt = context + f"User query: {query}\n" + query_prompt
compose(context_value, query, responder_config) ==
    context_value \o <<"User query: ", query, "\n", responder_config.query_prompt>>

\* the payload OpenRouterResponder sends to the completion endpoint
chat_payload(responder_config, prompt) ==
    [k \in {"model", "messages"}
        \cup (IF responder_config.model.max_tokens # None
              THEN {"max_tokens"} ELSE {})
        \cup (IF responder_config.model.temperature # None
              THEN {"temperature"} ELSE {}) |->
        CASE k = "model" -> <<responder_config.model.model_id>>
          [] k = "messages" ->
                <<[role |-> "system", content |-> <<responder_config.system_prompt>>],
                  [role |-> "user", content |-> prompt]>>
          [] k = "max_tokens" -> <<responder_config.model.max_tokens>>
          [] OTHER -> <<responder_config.model.temperature>>]

\* What the generation capability yields to a responder: a transport
\* failure, or a response with its text (for the completion endpoint, with
\* the number of entries of `choices`).
ResponderOutcomes(impl) ==
    { [ok |-> FALSE, choices |-> 0, text |-> ""],
      [ok |-> TRUE, choices |-> 1, text |-> "Flare is a layer-1 blockchain."],
      [ok |-> TRUE, choices |-> 1, text |-> ""] }
    \cup (IF impl = "OpenRouterResponder"
          THEN {[ok |-> TRUE, choices |-> 0, text |-> ""]} ELSE {})

\* parse_chat_response: response.get("choices", [])[0]...get("content", "")
parse_chat_response(out) ==
    IF out.choices = 0
    THEN [status |-> "raised", exc |-> "IndexError", text |-> ""]
    ELSE [status |-> "returned", exc |-> "none", text |-> out.text]

\* A plausible slip: a failed call is answered with an empty string.
call_failed_Empty(exc) == [status |-> "returned", exc |-> "none", text |-> ""]

\* the capability call raised: nothing catches it
call_failed(exc) == [status |-> "raised", exc |-> exc, text |-> ""]

NoPrompt == <<>>

NoRespond ==
    [impl |-> "none", cfg |-> ResponderConfig_load([id |-> "gemini-1.5-flash"]),
     query |-> "", docs |-> <<>>, prompt |-> NoPrompt, calls |-> <<>>,
     out |-> [ok |-> FALSE, choices |-> 0, text |-> ""],
     res |-> call_failed("none")]

\* GeminiResponder.generate_response / OpenRouterResponder.generate_response
generate_response(impl, cfg, query, retrieved_documents, out) ==
    LET ctx == context(retrieved_documents, Len(retrieved_documents))
        prompt == compose(ctx.value, query, cfg)
        inv == [impl |-> impl, cfg |-> cfg, query |-> query,
                docs |-> retrieved_documents, prompt |-> NoPrompt,
                calls |-> <<>>, out |-> out, res |-> call_failed("none")]
    IN IF ctx.raised
       THEN [inv EXCEPT !.res = call_failed("AttributeError")]
       ELSE LET called == [inv EXCEPT !.prompt = prompt,
                    !.calls =
                       IF impl = "GeminiResponder"
                       THEN <<GenCall("generate",
                                [prompt |-> prompt, response_mime_type |-> None,
                                 response_schema |-> None])>>
                       ELSE <<GenCall("send_chat_completion",
                                chat_payload(cfg, prompt))>>]
            IN IF ~out.ok
               THEN [called EXCEPT !.res = call_failed("TransportError")]
               ELSE IF impl = "GeminiResponder"
                    THEN [called EXCEPT !.res =
                            [status |-> "returned", exc |-> "none", text |-> out.text]]
                    ELSE [called EXCEPT !.res = parse_chat_response(out)]

(***************************************************************************)
(* GeminiRouter.route_query / QueryRouter.route_query                      *)
(***************************************************************************)
Raised(exc) == [status |-> "raised", exc |-> exc, value |-> NoStr]
Returned(v) == [status |-> "returned", exc |-> "none", value |-> v]

\* .get("classification", "") on the parsed value, then .upper()
extract(parsed) ==
    IF parsed.json # "object" THEN Raised("AttributeError")
    ELSE IF ~parsed.key THEN Returned(upper(NoStr))
    ELSE IF parsed.ctype # "string" THEN Raised("AttributeError")
    ELSE Returned(upper(parsed.cval))

\* A plausible slip: the validation is left out and the raw value goes through.
validate_NoFallback(cfg, classification) == classification

\* if classification not in valid_options: classification = clarify_option
validate(cfg, classification) ==
    IF classification \notin valid_options(cfg)
    THEN cfg.clarify_option
    ELSE classification

route_query(impl, cfg, out) ==
    IF ~out.ok THEN Raised("TransportError")
    ELSE LET p == parse(impl, out.text) IN
         IF p.raised THEN Raised("JSONDecodeError")
         ELSE LET c == extract(p.value) IN
              IF c.status = "raised" THEN c
              ELSE Returned(validate(cfg, c.value))

NoRoute ==
    [impl |-> "none", cfg |-> RouterConfig_load,
     out |-> [ok |-> FALSE, text |-> [fenced |-> FALSE, body |-> Body("invalid", FALSE, "none", NoStr)]],
     res |-> Raised("none"), calls |-> <<>>]

\* the prompt handed to route_query
RouterPrompt == <<"ROUTER_PROMPT", "What is Flare?">>

\* the one call route_query makes: self.client.generate for the
\* GeminiRouter, self.client.send_chat_completion for the QueryRouter
route_calls(impl, cfg, prompt) ==
    IF impl = "GeminiRouter"
    THEN <<GenCall("generate",
                   [prompt |-> prompt, response_mime_type |-> None,
                    response_schema |-> None])>>
    ELSE <<GenCall("send_chat_completion", [prompt |-> prompt])>>

RouteQuery ==
    \E impl \in Routers, cfg \in RouterConfigs, out \in ClientOutcomes :
        /\ route' = [impl |-> impl, cfg |-> cfg, out |-> out,
                     res |-> route_query(impl, cfg, out),
                     calls |-> route_calls(impl, cfg, RouterPrompt)]
        /\ ai' = IF impl = "GeminiRouter"
                 THEN [ai EXCEPT !["router"] = generate(@, RouterPrompt, out.ok)]
                 ELSE ai
        /\ search' = NoSearch
        /\ respond' = NoRespond
        /\ UNCHANGED <<df_docs, collection, build, store, nbuilds, nstores, nforeign>>
        /\ UNCHANGED <<fmt, components, requests, message>>

(***************************************************************************)
(* The vector index (Qdrant), as the code uses it: a collection maps point *)
(* ids to payloads.  A payload is absent (None) or a mapping of fields.    *)
(***************************************************************************)
Payload(fields) == [some |-> TRUE, fields |-> fields]
NoPayload == [some |-> FALSE, fields |-> <<>>]

EmptyCollection == <<>>

points_count(c) == Cardinality(DOMAIN c)

PointStruct(id, payload) == [id |-> id, payload |-> payload]

Ids(points) == { points[k].id : k \in DOMAIN points }

\* A plausible slip: the batch is not written as a whole, only its first
\* point arrives.
upsert_FirstOnly(c, points) ==
    IF points = <<>> THEN c
    ELSE [i \in DOMAIN c \cup {points[1].id} |->
            IF i = points[1].id THEN points[1].payload ELSE c[i]]

\* client.upsert: each point is written under its id, replacing a point
\* that already has that id; the last point of the batch with an id wins.
upsert(c, points) ==
    [i \in DOMAIN c \cup Ids(points) |->
        IF i \in Ids(points)
        THEN points[CHOOSE k \in DOMAIN points :
                      /\ points[k].id = i
                      /\ \A j \in DOMAIN points : points[j].id = i => j <= k].payload
        ELSE c[i]]

\* A plausible slip: the collection is created only if missing, contents kept.
recreate_collection_Keep(c) == c

\* client.recreate_collection: the collection is dropped and created empty.
recreate_collection(c) == EmptyCollection

(***************************************************************************)
(* RetrieverConfig and the corpus (the DataFrame of docs.csv)              *)
(***************************************************************************)
RetrieverConfig(embedding_model, collection_name, vector_size) ==
    [embedding_model |-> embedding_model, collection_name |-> collection_name,
     vector_size |-> vector_size]

\* The embedding models a configuration can name, and the length of the
\* vectors each produces.
EmbeddingModels == {"models/text-embedding-004", "models/gemini-embedding-001"}

Dimension(embedding_model) ==
    IF embedding_model = "models/text-embedding-004" THEN 768 ELSE 3072

\* RetrieverConfig.load of the parameters the process is started with; the
\* default names text-embedding-004.  vector_size is the length of the
\* vectors of the configured model.
RetrieverConfig_load(embedding_model) ==
    RetrieverConfig(embedding_model, "docs_collection", Dimension(embedding_model))

RetrieverConfigs == { RetrieverConfig_load(e) : e \in EmbeddingModels }

\* the retriever_config that main.py hands to generate_collection and to the
\* QdrantRetriever, and that the Discord service loads from the same file
retriever_config == components["QdrantRetriever"].retriever_config

NaN == "NaN"    \* a content cell that is not a str
Contents == {NaN, "Flare is a blockchain."}

IsStr(content) == content # NaN

\* file_name of the i-th row of the table
FileNames == <<"a.md", "b.md", "c.md", "d.md", "e.md">>

Row(i, content) ==
    [file_name |-> FileNames[i], meta_data |-> "{}", content |-> content]

Corpora ==
    UNION { { [i \in 1..n |-> Row(i, f[i])] : f \in [1..n -> Contents] } : n \in 0..MaxRows }

\* What embed_content does for one call: returns a vector, or raises
\* InvalidArgument with the size-limit message, InvalidArgument with another
\* message, or any other exception.
EmbedOutcomes == {"ok", "size_limit", "invalid_argument", "error"}

Call(op, model, task_type, title, n) ==
    [op |-> op, model |-> model, task_type |-> task_type, title |-> title, n |-> n]

NoTitle == "None"

\* EmbeddingTaskType
RETRIEVAL_QUERY == "RETRIEVAL_QUERY"
RETRIEVAL_DOCUMENT == "RETRIEVAL_DOCUMENT"

(***************************************************************************)
(* generate_collection                                                     *)
(***************************************************************************)
NoStore ==
    [msg |-> "", stage |-> "none", next_id |-> 0, raised |-> FALSE,
     wrote |-> FALSE, log |-> <<>>, calls |-> <<>>]

NoBuild ==
    [pc |-> "idle", corpus |-> <<>>, dropped |-> 0, idx |-> 0,
     outcomes |-> <<>>, points |-> <<>>, log |-> <<>>, calls |-> <<>>]

\* id=idx, the enumerate(df_docs.iterrows(), start=1) counter of the row
row_id(idx, points) == idx

\* the payload built for a row
row_payload(row) ==
    Payload([filename |-> row.file_name, metadata |-> row.meta_data,
             text |-> row.content])

\* A plausible slip: an embedding failure other than the expected ones
\* is re-raised and aborts the build.
embed_failure_Abort(b, row, outcome) ==
    [b EXCEPT !.pc = "raised",
              !.log = Append(@, "exception: Error encoding document (general).")]

\* A plausible slip: a failed embedding is logged and tried once more.
embed_failure_Retry(b, row, outcome) ==
    [b EXCEPT !.log = Append(@, "exception: Error encoding document (general)."),
              !.calls = Append(@,
                    Call("embed_content", retriever_config.embedding_model,
                         RETRIEVAL_DOCUMENT, row.file_name, 0))]

\* the except branches of the embedding call: log and continue
embed_failure(b, row, outcome) ==
    [b EXCEPT !.log = Append(@,
        CASE outcome = "size_limit" ->
                 "warning: Skipping document due to size limit."
          [] outcome = "invalid_argument" ->
                 "exception: Error encoding document (InvalidArgument)."
          [] OTHER ->
                 "exception: Error encoding document (general).")]

\* the points the loop over the first n rows appends, given the set of rows
\* whose embedding succeeds
RECURSIVE emitted(_, _, _)
emitted(df, embedded, n) ==
    IF n = 0 THEN <<>>
    ELSE LET points == emitted(df, embedded, n - 1)
         IN IF IsStr(df[n].content) /\ n \in embedded
            THEN Append(points, PointStruct(row_id(n, points), row_payload(df[n])))
            ELSE points

\* A plausible slip: a failed index call is logged like a failed document
\* and the build carries on to its end.
index_call_failed_Logged(b) ==
    [b EXCEPT !.pc = "done",
              !.log = Append(@, "exception: Error encoding document (general).")]

\* client.recreate_collection or client.upsert raised: generate_collection
\* has no handler around them, the build ends there
index_call_failed(b) == [b EXCEPT !.pc = "raised"]

\* _create_collection, then points = []
GenerateStart ==
    /\ build.pc \in {"idle", "done", "raised"}
    /\ nbuilds < MaxBuilds
    /\ nbuilds' = nbuilds + 1
    /\ \E df \in {df_docs}, ok \in BOOLEAN :
        IF ok
        THEN /\ collection' = recreate_collection(collection)
             /\ build' = [pc |-> "rows", corpus |-> df,
                          dropped |-> points_count(collection), idx |-> 0,
                          outcomes |-> <<>>, points |-> <<>>,
                          log |-> <<"info: Created the collection.">>,
                          calls |-> <<Call("recreate_collection", "-", "-", "-", 0)>>]
        ELSE /\ collection' \in {collection, EmptyCollection}
             /\ build' = index_call_failed(
                         [pc |-> "rows", corpus |-> df, dropped |-> 0, idx |-> 0,
                          outcomes |-> <<>>, points |-> <<>>, log |-> <<>>,
                          calls |-> <<Call("recreate_collection", "-", "-", "-", 0)>>])
    /\ store' = NoStore
    /\ search' = NoSearch
    /\ UNCHANGED <<df_docs, route, nstores, nforeign>>
    /\ UNCHANGED <<respond, ai, fmt, components, requests, message>>

\* one iteration of the loop over df_docs.iterrows()
GenerateRow ==
    /\ build.pc = "rows"
    /\ build.idx < Len(build.corpus)
    /\ LET idx == build.idx + 1
           row == build.corpus[idx]
           b == [build EXCEPT !.idx = idx]
       IN IF ~IsStr(row.content)
          THEN build' = [b EXCEPT !.outcomes = Append(@, "not_text"),
                    !.log = Append(@,
                    "warning: Skipping document due to missing or invalid content.")]
          ELSE \E outcome \in EmbedOutcomes :
                LET called == [b EXCEPT !.outcomes = Append(@, outcome),
                        !.calls = Append(@,
                        Call("embed_content", retriever_config.embedding_model,
                             RETRIEVAL_DOCUMENT, row.file_name, 0))]
                IN IF outcome = "ok"
                   THEN build' = [called EXCEPT !.points = Append(@,
                            PointStruct(row_id(idx, build.points), row_payload(row)))]
                   ELSE build' = embed_failure(called, row, outcome)
    /\ UNCHANGED <<df_docs, route, collection, store, search, nbuilds, nstores, nforeign>>
    /\ UNCHANGED <<respond, ai, fmt, components, requests, message>>

\* A plausible slip: the upsert is issued whether or not there are points.
has_points_Always(points) == TRUE

\* `if points:`
has_points(points) == points # <<>>

\* after the loop: one upsert of all points, or the warning
GenerateFinish ==
    /\ build.pc = "rows"
    /\ build.idx = Len(build.corpus)
    /\ IF has_points(build.points)
       THEN \E ok \in BOOLEAN :
            LET called == [build EXCEPT !.calls = Append(@,
                    Call("upsert", "-", "-", "-", Len(build.points)))]
            IN IF ok
               THEN /\ collection' = upsert(collection, build.points)
                    /\ build' = [called EXCEPT !.pc = "done", !.log = Append(@,
                         "info: Collection generated and documents inserted into Qdrant successfully.")]
               ELSE /\ collection' = collection
                    /\ build' = index_call_failed(called)
       ELSE /\ collection' = collection
            /\ build' = [build EXCEPT !.pc = "done", !.log = Append(@,
                    "warning: No valid documents found to insert.")]
    /\ UNCHANGED <<df_docs, route, store, search, nbuilds, nstores, nforeign>>
    /\ UNCHANGED <<respond, ai, fmt, components, requests, message>>

\* no generate_collection is between its recreate and its upsert
Quiescent == build.pc # "rows"

(***************************************************************************)
(* store_discord_message                                                   *)
(***************************************************************************)
Messages == {"gm"}
AuthorId == "809188856242503720"
JumpUrl(msg) == "https://discord.com/channels/1/1/1"
Now == "2026-01-01T00:00:00"     \* pd.Timestamp.now().isoformat()

discord_payload(msg) ==
    Payload([filename |-> JumpUrl(msg), text |-> msg, author_id |-> AuthorId,
             type |-> "discord_message", timestamp |-> Now])

\* next_id = points_count + 1; upsert of the one point
append_point(c, msg) ==
    upsert(c, <<PointStruct(points_count(c) + 1, discord_payload(msg))>>)

\* the collection after n messages were stored one after the other
RECURSIVE appended(_, _)
appended(c, n) ==
    IF n = 0 THEN c
    ELSE append_point(appended(c, n - 1), CHOOSE msg \in Messages : TRUE)

\* A plausible slip: no try/except around the body, the failure propagates.
store_failed_Propagates(st, stage) ==
    [st EXCEPT !.stage = stage, !.raised = TRUE]

\* except Exception as e: logger.exception("Failed to store Discord message")
store_failed(st, stage) ==
    [st EXCEPT !.stage = stage, !.raised = FALSE,
               !.log = Append(@, "exception: Failed to store Discord message")]

\* The stages at which the body of the try block can fail, in call order.
StoreFailures == {"get_collection", "embed_content", "upsert"}

\* the call store_discord_message(message_content=msg, ...)
store_discord_message(msg) ==
    /\ nstores < MaxStores
    /\ nstores' = nstores + 1
    /\ \E outcome \in StoreFailures \cup {"ok"} :
        LET next_id == points_count(collection) + 1
            c1 == <<Call("get_collection", "-", "-", "-", 0)>>
            c2 == Append(c1, Call("embed_content", retriever_config.embedding_model,
                                  RETRIEVAL_DOCUMENT, NoTitle, 0))
            c3 == Append(c2, Call("upsert", "-", "-", "-", 1))
            st == [NoStore EXCEPT !.msg = msg]
        IN CASE outcome = "get_collection" ->
                  /\ store' = store_failed([st EXCEPT !.calls = c1], outcome)
                  /\ collection' = collection
             [] outcome = "embed_content" ->
                  /\ store' = store_failed(
                        [st EXCEPT !.calls = c2, !.next_id = next_id], outcome)
                  /\ collection' = collection
             [] outcome = "upsert" ->
                  /\ store' = store_failed(
                        [st EXCEPT !.calls = c3, !.next_id = next_id], outcome)
                  /\ collection' = collection
             [] OTHER ->
                  /\ store' = [st EXCEPT !.calls = c3, !.next_id = next_id,
                                         !.stage = "stored", !.wrote = TRUE,
                                         !.log = <<"info: Successfully stored Discord message in vector database">>]
                  /\ collection' = append_point(collection, msg)
    /\ search' = NoSearch
    /\ UNCHANGED <<df_docs, route, build, nbuilds, nforeign>>
    /\ UNCHANGED <<respond, ai, fmt, components, requests>>

\* store_discord_message called on its own, with a message of the channel
StoreDiscordMessage ==
    /\ \E msg \in Messages : store_discord_message(msg)
    /\ UNCHANGED message

(***************************************************************************)
(* discord/service.py: on_message.  The handler returns at once on the     *)
(* bot's own messages, forwards `!norag` messages to the chat endpoint,    *)
(* stores the messages of authorized authors and forwards the rest.        *)
(***************************************************************************)
Bot == "client.user"
AUTHORIZED_USER_IDS == {"809188856242503720"}
Authors == {Bot, "809188856242503720", "42"}

\* message.content: the channel messages, and messages with the prefix
MessageContents == Messages \cup {"!norag", "!norag ", "!norag What is Flare?"}

\* message.content.startswith("!norag")
startswith_norag(content) ==
    content \in {"!norag", "!norag ", "!norag What is Flare?"}

\* message.content[len("!norag"):].strip()
norag_content(content) ==
    IF content = "!norag What is Flare?" THEN "What is Flare?" ELSE ""

\* requests.post(url, json=data): a response with a status, or a raise
PostOutcomes == {"200", "500", "raised"}

\* the invocation: its arguments, the store_discord_message call it made
\* (NoStore if none), the flag, whether the chat endpoint was posted to,
\* what was replied and whether the handler raised
Handling(author, content, called, st, stored_successfully, posted, reply, raised) ==
    [author |-> author, content |-> content, store_called |-> called,
     store |-> st, stored_successfully |-> stored_successfully,
     posted |-> posted, reply |-> reply, raised |-> raised]

NoMessage == Handling("none", "", FALSE, NoStore, FALSE, FALSE, "", FALSE)

\* the request to the chat endpoint and what follows it
forward(h, post) ==
    [h EXCEPT !.posted = TRUE,
              !.reply = IF post = "200" THEN "response" ELSE "",
              !.raised = (post = "raised")]

\* stored_successfully = True follows the awaited call inside the try: the
\* flag is set when store_discord_message returned, whatever it did.
stored_flag(st) == ~st.raised

OnMessage ==
    \E author \in Authors, content \in MessageContents,
       init_ok \in BOOLEAN, post \in PostOutcomes :
        LET h == Handling(author, content, FALSE, NoStore, FALSE, FALSE, "", FALSE)
            unchanged == UNCHANGED <<df_docs, route, collection, build, store,
                                     search, nbuilds, nstores, nforeign, respond,
                                     ai, fmt, components, requests>>
        IN IF author = Bot
           THEN message' = h /\ unchanged
           ELSE IF startswith_norag(content)
           THEN /\ message' = IF norag_content(content) # ""
                              THEN forward(h, post)
                              ELSE [h EXCEPT !.reply =
                                      "Please provide content after !norag."]
                /\ unchanged
           ELSE IF author \in AUTHORIZED_USER_IDS /\ init_ok
           THEN /\ store_discord_message(content)
                /\ LET called == [h EXCEPT !.store_called = TRUE, !.store = store',
                                  !.stored_successfully = stored_flag(store')]
                   IN message' = IF called.stored_successfully
                                 THEN called
                                 ELSE forward(called, post)
           ELSE /\ message' = forward(h, post)
                /\ unchanged

(***************************************************************************)
(* Other users of the index.  The collection is not owned by this program: *)
(* a point written by another client can have no payload, an empty one, or *)
(* one without a `text` field (the cases semantic_search provides for).    *)
(***************************************************************************)
ForeignPayloads ==
    { NoPayload, Payload(<<>>), Payload([filename |-> "notes.txt"]),
      Payload([text |-> "The FTSO is an oracle."]) }

ForeignUpsert ==
    /\ nforeign < MaxForeign
    /\ nforeign' = nforeign + 1
    /\ \E p \in ForeignPayloads :
        collection' = upsert(collection,
                             <<PointStruct(points_count(collection) + 1, p)>>)
    /\ search' = NoSearch
    /\ respond' = NoRespond
    /\ UNCHANGED <<df_docs, route, build, store, nbuilds, nstores>>
    /\ UNCHANGED <<ai, fmt, components, requests, message>>

(***************************************************************************)
(* QdrantRetriever.semantic_search                                         *)
(***************************************************************************)
Queries == {"What is Flare?", "What is the FTSO?"}

\* The similarity (in percent) the index computes between a query and a
\* point; which point is nearest depends on the query.
Score(query, id) ==
    IF query = "What is Flare?" THEN 99 - 7 * id ELSE 1 + 7 * id

ScoredPoint(c, query, id) ==
    [id |-> id, score |-> Score(query, id), payload |-> c[id]]

\* client.search(limit=k): the k nearest points, most similar first
RECURSIVE nearest(_, _, _, _)
nearest(c, ids, query, k) ==
    IF k = 0 \/ ids = {} THEN <<>>
    ELSE LET best == CHOOSE i \in ids :
                        \A j \in ids : Score(query, i) >= Score(query, j)
         IN <<ScoredPoint(c, query, best)>>
                \o nearest(c, ids \ {best}, query, k - 1)

client_search(c, query, limit) == nearest(c, DOMAIN c, query, limit)

\* `if hit.payload:` -- None and {} are both falsy
Truthy(payload) == payload.some /\ DOMAIN payload.fields # {}

Dict(fields) == [type |-> "dict", value |-> fields]
Str(chars) == [type |-> "str", value |-> chars]

\* hit.payload.get("text", "")
payload_text(payload) ==
    IF "text" \in DOMAIN payload.fields THEN payload.fields["text"] ELSE ""

\* {field: value for field, value in hit.payload.items() if field != "text"}
payload_metadata(payload) ==
    Dict([f \in DOMAIN payload.fields \ {"text"} |-> payload.fields[f]])

\* the body of `for hit in results`
result(hit) ==
    IF Truthy(hit.payload)
    THEN [text |-> payload_text(hit.payload), score |-> hit.score,
          metadata |-> payload_metadata(hit.payload)]
    ELSE [text |-> "", score |-> hit.score, metadata |-> Str("")]

output(hits) == [i \in DOMAIN hits |-> result(hits[i])]

SearchFailures == {"embed_content", "search"}

\* A plausible slip: the query is embedded like a document.
query_task_type_Document == RETRIEVAL_DOCUMENT

\* task_type=EmbeddingTaskType.RETRIEVAL_QUERY
query_task_type == RETRIEVAL_QUERY

\* A plausible slip: a failed call is caught and an empty list returned.
search_raised_Swallowed(top_k, calls) ==
    [status |-> "returned", top_k |-> top_k, hits |-> <<>>, output |-> <<>>,
     calls |-> calls]

\* embed_content or client.search raised: semantic_search has no handler
search_raised(top_k, calls) ==
    [status |-> "raised", top_k |-> top_k, hits |-> <<>>, output |-> <<>>,
     calls |-> calls]

SemanticSearch ==
    \E query \in Queries, top_k \in 1..MaxTopK,
       outcome \in SearchFailures \cup {"ok"} :
        LET c1 == <<Call("embed_content", "models/text-embedding-004",
                         query_task_type, NoTitle, 0)>>
            c2 == Append(c1, Call("search", "-", "-", "-", top_k))
            hits == client_search(collection, query, top_k)
        IN /\ search' =
                CASE outcome = "embed_content" -> search_raised(top_k, c1)
                  [] outcome = "search" -> search_raised(top_k, c2)
                  [] OTHER ->
                        [status |-> "returned", top_k |-> top_k, hits |-> hits,
                         output |-> output(hits), calls |-> c2]
           /\ route' = NoRoute
           /\ respond' = NoRespond
           /\ UNCHANGED <<df_docs, collection, build, store,
                          nbuilds, nstores, nforeign>>
           /\ UNCHANGED <<ai, fmt, components, requests, message>>

\* generate_response on the documents the semantic_search just returned
GenerateResponse ==
    /\ search.status = "returned"
    /\ \E impl \in Responders, cfg \in ResponderConfigs, query \in Queries :
        \E out \in ResponderOutcomes(impl) :
            LET r == generate_response(impl, cfg, query, search.output, out)
            IN /\ respond' = r
               /\ ai' = IF impl = "GeminiResponder" /\ r.calls # <<>>
                        THEN [ai EXCEPT !["responder"] = generate(@, r.prompt, out.ok)]
                        ELSE ai
    /\ route' = NoRoute
    /\ search' = NoSearch
    /\ UNCHANGED <<df_docs, collection, build, store, nbuilds, nstores, nforeign>>
    /\ UNCHANGED <<fmt, components, requests, message>>

(***************************************************************************)
(* The chat endpoint's use of base_ai: the public methods of the           *)
(* GeminiProvider that main.py hands to it.                                *)
(***************************************************************************)
ChatMessages == {"hello"}
SystemInstructions == {SYSTEM_INSTRUCTION}
ChatProviders == {"router"}

SendMessage ==
    /\ \E p \in ChatProviders, msg \in ChatMessages, ok \in BOOLEAN :
          /\ ai[p].chat.turns < MaxTurns
          /\ ai' = [ai EXCEPT ![p] = send_message(@, msg, ok)]
    /\ UNCHANGED <<df_docs, route, collection, build, store, search, nbuilds,
                   nstores, nforeign, respond, fmt, components, requests, message>>

Reset ==
    /\ \E p \in ChatProviders : ai' = [ai EXCEPT ![p] = reset(@)]
    /\ UNCHANGED <<df_docs, route, collection, build, store, search, nbuilds,
                   nstores, nforeign, respond, fmt, components, requests, message>>

ResetModel ==
    /\ \E p \in ChatProviders, model \in ModelIds, si \in SystemInstructions :
          ai' = [ai EXCEPT ![p] = reset_model(@, model, si)]
    /\ UNCHANGED <<df_docs, route, collection, build, store, search, nbuilds,
                   nstores, nforeign, respond, fmt, components, requests, message>>

(***************************************************************************)
(* prompts/schemas.py: Prompt.format.  A template is the sequence of its   *)
(* literal pieces and ${name} placeholders.                                *)
(***************************************************************************)
Lit(text) == [kind |-> "lit", s |-> text]
Var(name) == [kind |-> "var", s |-> name]

InputNames == {"user_input", "text", "code"}

Templates ==
    { <<Lit("Classify the query.")>>,
      <<Lit("Hello "), Var("user_input"), Lit("!")>>,
      <<Var("user_input"), Lit(" about "), Var("text")>>,
      <<Lit("Run "), Var("code"), Lit(" for "), Var("user_input")>> }

\* required_inputs: list[str] | None
NoInputs == [some |-> FALSE, names |-> <<>>]
Inputs(names) == [some |-> TRUE, names |-> names]

RequiredInputs ==
    { NoInputs, Inputs(<<>>), Inputs(<<"user_input">>), Inputs(<<"text">>),
      Inputs(<<"user_input", "text">>) }

Prompt(template, required_inputs) ==
    [name |-> "prompt", description |-> "a prompt", template |-> template,
     required_inputs |-> required_inputs, response_schema |-> None,
     response_mime_type |-> None, examples |-> None, category |-> None,
     version |-> "1.0"]

Prompts == { Prompt(t, r) : t \in Templates, r \in RequiredInputs }

\* the keyword arguments of a call: a value for each name of a set of names
Kwargs == UNION { [names -> {"Alice"}] : names \in SUBSET InputNames }

set(names) == { names[k] : k \in DOMAIN names }

\* string.Template.safe_substitute: a placeholder whose name is supplied is
\* replaced by the value, every other piece is left as it is; a missing
\* name raises nothing
safe_substitute(template, kwargs) ==
    [raised |-> FALSE,
     value |-> [k \in DOMAIN template |->
                  IF template[k].kind = "var" /\ template[k].s \in DOMAIN kwargs
                  THEN Lit(kwargs[template[k].s])
                  ELSE template[k]]]

FormatReturned(value) ==
    [status |-> "returned", exc |-> "none", value |-> value, missing |-> {}]
FormatRaised(exc, missing) ==
    [status |-> "raised", exc |-> exc, value |-> <<>>, missing |-> missing]

\* A plausible slip: only None counts as "no required inputs".
no_required_inputs_NoneOnly(required_inputs) == ~required_inputs.some

\* `not self.required_inputs`: None and [] are both falsy
no_required_inputs(required_inputs) ==
    ~required_inputs.some \/ required_inputs.names = <<>>

\* Prompt.format(**kwargs)
format(self, kwargs) ==
    IF no_required_inputs(self.required_inputs)
    THEN FormatReturned(self.template)
    ELSE LET r == safe_substitute(self.template, kwargs)
             missing_keys == set(self.required_inputs.names) \ DOMAIN kwargs
         IN IF ~r.raised THEN FormatReturned(r.value)
            ELSE IF missing_keys # {}
                 THEN FormatRaised("ValueError", missing_keys)
                 ELSE FormatRaised("KeyError", {})

NoFormat ==
    [called |-> FALSE, self |-> Prompt(<<>>, NoInputs), kwargs |-> <<>>,
     res |-> FormatRaised("none", {}), after |-> Prompt(<<>>, NoInputs)]

\* one call of format on a Prompt object; the method assigns no attribute
FormatPrompt ==
    /\ \E self \in Prompts, kwargs \in Kwargs :
          fmt' = [called |-> TRUE, self |-> self, kwargs |-> kwargs,
                  res |-> format(self, kwargs), after |-> self]
    /\ UNCHANGED <<df_docs, route, collection, build, store, search, nbuilds,
                   nstores, nforeign, respond, ai, components, requests,
                   message>>

(***************************************************************************)
(* Concurrent invocations.  The server runs requests on several threads;   *)
(* each invocation of route_query, semantic_search or generate_response    *)
(* keeps its arguments and the responses it receives in its own frame and  *)
(* blocks on each external call.  A slot holds one invocation in flight.   *)
(***************************************************************************)
Slots == 1..MaxRequests

\* the attributes the constructors assign
InitComponents ==
    [GeminiRouter |->
        [client |-> "base_ai", router_config |-> RouterConfig_load],
     QueryRouter |->
        [client |-> "openrouter_client", router_config |-> RouterConfig_load,
         query |-> ""],
     QdrantRetriever |->
        [client |-> "qdrant_client",
         retriever_config |-> RetrieverConfig_load("models/text-embedding-004"),
         embedding_client |-> "embedding_client"],
     GeminiResponder |->
        [client |-> "gemini_provider",
         responder_config |-> ResponderConfig_load([id |-> "gemini-1.5-flash"])],
     OpenRouterResponder |->
        [client |-> "openrouter_client",
         responder_config |-> ResponderConfig_load([id |-> "gemini-1.5-flash"])]]

Frame(pc, obj, query, top_k, docs, out, res) ==
    [pc |-> pc, obj |-> obj, query |-> query, top_k |-> top_k, docs |-> docs,
     out |-> out, res |-> res]

NoFrame == Frame("idle", "none", "", 0, <<>>, <<>>, <<>>)

\* A plausible slip: the method keeps its argument on the object.
method_body_Remember(self, query) ==
    IF "query" \in DOMAIN self THEN [self EXCEPT !.query = query] ELSE self

\* the object after the statements of a method body ran: route_query,
\* semantic_search and generate_response assign no attribute of self
method_body(self, query) == self

\* the responses a router can receive
RouterResponses ==
    { out \in ClientOutcomes :
        \/ ~out.ok
        \/ /\ ~out.text.fenced
           /\ out.text.body.json = "object"
           /\ out.text.body.cval \in {ANSWER, <<"r", "e", "j", "e", "c", "t">>} }

\* the documents a responder can be handed: what a semantic_search over
\* the collection returns
RetrievedDocuments ==
    { output(client_search(collection, q, 1)) : q \in Queries }

\* route_query is entered and blocks on its generation call
InvokeRoute(i) ==
    /\ requests[i].pc = "idle"
    /\ \E impl \in Routers, q \in Queries :
        /\ requests' = [requests EXCEPT ![i] =
                          [NoFrame EXCEPT !.pc = "generate", !.obj = impl, !.query = q]]
        /\ components' = [components EXCEPT ![impl] = method_body(@, q)]
    /\ UNCHANGED <<df_docs, route, collection, build, store, search, nbuilds,
                   nstores, nforeign, respond, ai, fmt, message>>

\* the generation call of a route_query comes back
ReturnRoute(i) ==
    /\ requests[i].pc = "generate"
    /\ requests[i].obj \in Routers
    /\ \E out \in RouterResponses :
        LET r == requests[i]
        IN requests' = [requests EXCEPT ![i] =
            [r EXCEPT !.pc = "returned", !.out = out,
                      !.res = route_query(r.obj,
                                  components[r.obj].router_config, out)]]
    /\ UNCHANGED <<df_docs, route, collection, build, store, search, nbuilds,
                   nstores, nforeign, respond, ai, fmt, components, message>>

\* semantic_search is entered and blocks on its embedding call
InvokeSearch(i) ==
    /\ requests[i].pc = "idle"
    /\ \E q \in Queries :
        /\ requests' = [requests EXCEPT ![i] =
                          [NoFrame EXCEPT !.pc = "embed", !.obj = "QdrantRetriever",
                                          !.query = q, !.top_k = MaxTopK]]
        /\ components' = [components EXCEPT !["QdrantRetriever"] = method_body(@, q)]
    /\ UNCHANGED <<df_docs, route, collection, build, store, search, nbuilds,
                   nstores, nforeign, respond, ai, fmt, message>>

\* the embedding call comes back; on success the search call is issued
ReturnEmbed(i) ==
    /\ requests[i].pc = "embed"
    /\ \E ok \in BOOLEAN :
        requests' = [requests EXCEPT ![i] =
            IF ok THEN [@ EXCEPT !.pc = "search"]
            ELSE [@ EXCEPT !.pc = "returned",
                           !.out = [embedded |-> FALSE, searched |-> FALSE, hits |-> <<>>],
                           !.res = [status |-> "raised", output |-> <<>>]]]
    /\ UNCHANGED <<df_docs, route, collection, build, store, search, nbuilds,
                   nstores, nforeign, respond, ai, fmt, components, message>>

\* the search call comes back with the hits of the collection as it is now
ReturnSearch(i) ==
    /\ requests[i].pc = "search"
    /\ \E ok \in BOOLEAN :
        LET hits == client_search(collection, requests[i].query, requests[i].top_k)
        IN requests' = [requests EXCEPT ![i] =
            IF ok
            THEN [@ EXCEPT !.pc = "returned",
                           !.out = [embedded |-> TRUE, searched |-> TRUE, hits |-> hits],
                           !.res = [status |-> "returned", output |-> output(hits)]]
            ELSE [@ EXCEPT !.pc = "returned",
                           !.out = [embedded |-> TRUE, searched |-> FALSE, hits |-> <<>>],
                           !.res = [status |-> "raised", output |-> <<>>]]]
    /\ UNCHANGED <<df_docs, route, collection, build, store, search, nbuilds,
                   nstores, nforeign, respond, ai, fmt, components, message>>

\* generate_response is entered, builds its prompt and blocks on its
\* generation call (or raises while building the prompt)
InvokeRespond(i) ==
    /\ requests[i].pc = "idle"
    /\ \E impl \in Responders, q \in Queries, docs \in RetrievedDocuments :
        LET ctx == context(docs, Len(docs))
            frame == [NoFrame EXCEPT !.obj = impl, !.query = q, !.docs = docs]
        IN /\ requests' = [requests EXCEPT ![i] =
                IF ctx.raised
                THEN [frame EXCEPT !.pc = "returned",
                                   !.res = call_failed("AttributeError")]
                ELSE [frame EXCEPT !.pc = "generate"]]
           /\ components' = [components EXCEPT ![impl] = method_body(@, q)]
    /\ UNCHANGED <<df_docs, route, collection, build, store, search, nbuilds,
                   nstores, nforeign, respond, ai, fmt, message>>

\* the generation call of a generate_response comes back
ReturnRespond(i) ==
    /\ requests[i].pc = "generate"
    /\ requests[i].obj \in Responders
    /\ \E out \in ResponderOutcomes(requests[i].obj) :
        LET r == requests[i]
        IN requests' = [requests EXCEPT ![i] =
            [r EXCEPT !.pc = "returned", !.out = out,
                      !.res = generate_response(r.obj,
                                  components[r.obj].responder_config,
                                  r.query, r.docs, out).res]]
    /\ UNCHANGED <<df_docs, route, collection, build, store, search, nbuilds,
                   nstores, nforeign, respond, ai, fmt, components, message>>

\* the caller has taken the result; the thread serves the next request
Complete(i) ==
    /\ requests[i].pc = "returned"
    /\ requests' = [requests EXCEPT ![i] = NoFrame]
    /\ UNCHANGED <<df_docs, route, collection, build, store, search, nbuilds,
                   nstores, nforeign, respond, ai, fmt, components, message>>

Init ==
    /\ df_docs \in Corpora
    /\ route = NoRoute
    /\ collection = EmptyCollection
    /\ build = NoBuild
    /\ store = NoStore
    /\ search = NoSearch
    /\ nbuilds = 0
    /\ nstores = 0
    /\ nforeign = 0
    /\ respond = NoRespond
    /\ ai = [p \in Providers |->
                IF p = "router"
                THEN GeminiProvider("gemini-1.5-flash", SYSTEM_INSTRUCTION)
                ELSE GeminiProvider("gemini-1.5-flash", RESPONDER_INSTRUCTION)]
    /\ fmt = NoFormat
    /\ components = InitComponents
    /\ requests = [i \in Slots |-> NoFrame]
    /\ message = NoMessage

\* route_query reads neither the corpus nor the index.
InitRouter == Init /\ df_docs = <<>>

NextRouter == RouteQuery

SpecRouter == InitRouter /\ [][NextRouter]_vars

\* The indexer used from one thread of control: a message is stored only
\* while no bulk build is between its recreate and its upsert.
NextIndex ==
    \/ GenerateStart
    \/ GenerateRow
    \/ GenerateFinish
    \/ (Quiescent /\ StoreDiscordMessage)

SpecIndex == Init /\ [][NextIndex]_vars

\* The retriever of a process that attaches to the index as earlier activity
\* left it: a generate_collection over the corpus (any rows skipped), then
\* some stored messages; other clients write while it serves queries.
InitRetriever ==
    /\ df_docs \in Corpora
    /\ route = NoRoute
    /\ \E embedded \in SUBSET DOMAIN df_docs, n \in 0..MaxStores :
          collection =
            appended(upsert(EmptyCollection,
                            emitted(df_docs, embedded, Len(df_docs))), n)
    /\ build = NoBuild
    /\ store = NoStore
    /\ search = NoSearch
    /\ nbuilds = 0
    /\ nstores = 0
    /\ nforeign = 0
    /\ respond = NoRespond
    /\ ai = [p \in Providers |->
                IF p = "router"
                THEN GeminiProvider("gemini-1.5-flash", SYSTEM_INSTRUCTION)
                ELSE GeminiProvider("gemini-1.5-flash", RESPONDER_INSTRUCTION)]
    /\ fmt = NoFormat
    /\ components = InitComponents
    /\ requests = [i \in Slots |-> NoFrame]
    /\ message = NoMessage

NextRetriever ==
    \/ ForeignUpsert
    \/ SemanticSearch

SpecRetriever == InitRetriever /\ [][NextRetriever]_vars

\* Retrieval followed by answer generation, on the index as earlier activity
\* left it.
NextPipeline ==
    \/ ForeignUpsert
    \/ SemanticSearch
    \/ GenerateResponse

InitPipeline ==
    /\ InitRetriever
    /\ df_docs = <<Row(1, "Flare is a blockchain."), Row(2, "Flare is a blockchain.")>>

SpecPipeline == InitPipeline /\ [][NextPipeline]_vars

\* Prompt.format is a method of a value object; it reads nothing else.
NextPrompt == FormatPrompt

SpecPrompt == InitRouter /\ [][NextPrompt]_vars

\* The chat endpoint: classification, retrieval and answer generation of a
\* request, and the multi-turn use of base_ai, before any document is indexed.
NextChat ==
    \/ RouteQuery
    \/ SemanticSearch
    \/ GenerateResponse
    \/ SendMessage
    \/ Reset
    \/ ResetModel

SpecChat == InitRouter /\ [][NextChat]_vars

\* The indexer and the retriever used by independent tasks: a search can
\* fall anywhere between the steps of the indexer, also between the recreate
\* and the upsert of a build.
InitConcurrent ==
    /\ Init
    /\ df_docs = <<Row(1, "Flare is a blockchain."), Row(2, "Flare is a blockchain.")>>

NextConcurrent ==
    \/ GenerateStart
    \/ GenerateRow
    \/ GenerateFinish
    \/ (Quiescent /\ StoreDiscordMessage)
    \/ SemanticSearch

SpecConcurrent == InitConcurrent /\ [][NextConcurrent]_vars

\* Requests served concurrently over an index that holds one document and
\* one stored message.
InitRequests ==
    /\ InitRetriever
    /\ df_docs = <<Row(1, "Flare is a blockchain.")>>
    /\ points_count(collection) = 2

NextRequests ==
    \E i \in Slots :
        \/ InvokeRoute(i)
        \/ ReturnRoute(i)
        \/ InvokeSearch(i)
        \/ ReturnEmbed(i)
        \/ ReturnSearch(i)
        \/ InvokeRespond(i)
        \/ ReturnRespond(i)
        \/ Complete(i)

SpecRequests == InitRequests /\ [][NextRequests]_vars

\* The indexer and the retriever of a process started with any of the
\* retriever configurations, used from one thread of control.
InitEmbedding ==
    /\ df_docs = <<Row(1, "Flare is a blockchain."), Row(2, NaN),
                   Row(3, "Flare is a blockchain.")>>
    /\ route = NoRoute
    /\ collection = EmptyCollection
    /\ build = NoBuild
    /\ store = NoStore
    /\ search = NoSearch
    /\ nbuilds = 0
    /\ nstores = 0
    /\ nforeign = 0
    /\ respond = NoRespond
    /\ ai = [p \in Providers |->
                IF p = "router"
                THEN GeminiProvider("gemini-1.5-flash", SYSTEM_INSTRUCTION)
                ELSE GeminiProvider("gemini-1.5-flash", RESPONDER_INSTRUCTION)]
    /\ fmt = NoFormat
    /\ \E cfg \in RetrieverConfigs :
          components =
            [InitComponents EXCEPT !["QdrantRetriever"].retriever_config = cfg]
    /\ requests = [i \in Slots |-> NoFrame]
    /\ message = NoMessage

NextEmbedding ==
    \/ GenerateStart
    \/ GenerateRow
    \/ GenerateFinish
    \/ (Quiescent /\ StoreDiscordMessage)
    \/ (Quiescent /\ SemanticSearch)

SpecEmbedding == InitEmbedding /\ [][NextEmbedding]_vars

\* The Discord service stores messages while the API process rebuilds the
\* index: an append can fall between the recreate and the upsert of a build.
NextOverlap ==
    \/ GenerateStart
    \/ GenerateRow
    \/ GenerateFinish
    \/ StoreDiscordMessage

SpecOverlap == InitConcurrent /\ [][NextOverlap]_vars

\* The Discord service handles the messages of its channels, on the index
\* as earlier activity left it.
NextDiscord == OnMessage

SpecDiscord == InitPipeline /\ [][NextDiscord]_vars

(***************************************************************************)
(* Claims about route_query                                                *)
(***************************************************************************)
Routed == route.impl # "none"

Options(cfg) == {cfg.answer_option, cfg.clarify_option, cfg.reject_option}

PairwiseDistinct(cfg) == Cardinality(Options(cfg)) = 3

\* s and o are the same word up to the case of each letter
CasePairs ==
    { <<LowerCase[i], UpperCase[i]>> : i \in DOMAIN LowerCase }
    \cup { <<UpperCase[i], LowerCase[i]>> : i \in DOMAIN LowerCase }

IsCasingOf(s, o) ==
    /\ Len(s) = Len(o)
    /\ \A i \in DOMAIN s : s[i] = o[i] \/ <<s[i], o[i]>> \in CasePairs

IsUpperForm(s) ==
    \A i \in DOMAIN s : \A k \in DOMAIN LowerCase : s[i] # LowerCase[k]

\* The response text is bare JSON: an object whose `classification` is a string.
WellFormed(text) ==
    /\ ~text.fenced
    /\ text.body.json = "object"
    /\ text.body.key
    /\ text.body.ctype = "string"

\* The response text is malformed or out of vocabulary for cfg.
Malformed(cfg, text) ==
    \/ text.body.json # "object"
    \/ ~text.body.key
    \/ text.body.ctype # "string"
    \/ \A o \in Options(cfg) : ~IsCasingOf(text.body.cval, o)

\* C1: whenever the generation capability returned a malformed or
\* out-of-vocabulary text, route_query returned exactly the clarify option
\* (it did not raise and did not return the raw text).
C1_MalformedYieldsClarify ==
    (Routed /\ route.out.ok /\ Malformed(route.cfg, route.out.text))
        => route.res = Returned(route.cfg.clarify_option)

\* C2: whenever route_query returns, the value is one of the three configured
\* options: the upper-cased extracted classification when that is an option,
\* the clarify option otherwise (also when the key is absent).
C2_ReturnsConfiguredOption ==
    (Routed /\ route.res.status = "returned") =>
        LET b == route.out.text.body
            extracted == IF b.key THEN upper(b.cval) ELSE NoStr
        IN /\ route.res.value \in Options(route.cfg)
           /\ route.res.value =
                 IF extracted \in Options(route.cfg)
                 THEN extracted
                 ELSE route.cfg.clarify_option

\* C2 witness: route_query returned the clarify option in place of an
\* out-of-vocabulary string.
C2_Witness ==
    /\ Routed
    /\ route.res.status = "returned"
    /\ route.out.text.body.key
    /\ route.out.text.body.cval = <<"m", "a", "y", "b", "e">>
    /\ route.res.value = route.cfg.clarify_option

\* C3 as stated: for every configuration with pairwise distinct options, an
\* option presented in any casing in a well-formed response is returned in
\* its upper-case form.
C3_AnyConfigAnyCasing ==
    (Routed /\ route.out.ok /\ PairwiseDistinct(route.cfg)
        /\ WellFormed(route.out.text)) =>
        \A o \in Options(route.cfg) :
            IsCasingOf(route.out.text.body.cval, o) =>
                /\ route.res.status = "returned"
                /\ IsCasingOf(route.res.value, o)
                /\ IsUpperForm(route.res.value)

\* C3 amended: for every configuration whose options are pairwise distinct
\* and already upper-case (what RouterConfig.load produces), an option
\* presented in any casing in a well-formed response is returned as
\* configured; only the extracted value is upper-cased.
C3_UpperConfigAnyCasing ==
    (Routed /\ route.out.ok /\ PairwiseDistinct(route.cfg)
        /\ (\A o \in Options(route.cfg) : IsUpperForm(o))
        /\ WellFormed(route.out.text)) =>
        \A o \in Options(route.cfg) :
            IsCasingOf(route.out.text.body.cval, o) =>
                route.res = Returned(o)

\* C3 witness: a mixed-case spelling of a non-default option came back as
\* the configured upper-case option.
C3_Witness ==
    /\ Routed
    /\ route.cfg = RouterConfig_load
    /\ WellFormed(route.out.text)
    /\ route.out.text.body.cval = <<"R", "e", "j", "e", "c", "t">>
    /\ route.res = Returned(REJECT)

(***************************************************************************)
(* Claims about generate_collection and store_discord_message              *)
(***************************************************************************)
Last(seq) == seq[Len(seq)]

\* generate_collection returned and nothing has touched the index since
JustBuilt == build.pc = "done" /\ store = NoStore

EmbeddedRows == { i \in DOMAIN build.outcomes : build.outcomes[i] = "ok" }
SkippedRows == DOMAIN build.outcomes \ EmbeddedRows

SkipLogs ==
    { k \in DOMAIN build.log :
        build.log[k] \in
          { "warning: Skipping document due to missing or invalid content.",
            "warning: Skipping document due to size limit.",
            "exception: Error encoding document (InvalidArgument).",
            "exception: Error encoding document (general)." } }

\* the payload {filename, metadata, text} of the i-th row of the corpus
PayloadOfRow(i) ==
    Payload([filename |-> df_docs[i].file_name,
             metadata |-> df_docs[i].meta_data,
             text |-> df_docs[i].content])

\* the rows of EmbeddedRows among the first n, in corpus order
RECURSIVE EmbeddedUpTo(_)
EmbeddedUpTo(n) ==
    IF n = 0 THEN <<>>
    ELSE IF n \in EmbeddedRows THEN Append(EmbeddedUpTo(n - 1), n)
         ELSE EmbeddedUpTo(n - 1)

\* C4: no row aborts the build (it raises only out of the recreate or the
\* upsert); every row is processed, one warning or error is logged per
\* skipped row, and when the build returns the collection holds exactly one
\* point per row with text content whose embedding succeeded, in corpus order.
C4_RowFailuresTolerated ==
    /\ build.pc = "raised" =>
          Last(build.calls).op \in {"recreate_collection", "upsert"}
    /\ build.pc = "done" =>
          /\ Len(build.outcomes) = Len(df_docs)
          /\ \A i \in DOMAIN df_docs :
                (build.outcomes[i] = "not_text") = ~IsStr(df_docs[i].content)
          /\ Cardinality(SkipLogs) = Cardinality(SkippedRows)
          /\ LET rows == EmbeddedUpTo(Len(df_docs))
             IN /\ Len(build.points) = Len(rows)
                /\ \A k \in DOMAIN rows :
                      build.points[k].payload = PayloadOfRow(rows[k])
    /\ JustBuilt =>
          /\ points_count(collection) = Cardinality(EmbeddedRows)
          /\ \A i \in EmbeddedRows :
                \E id \in DOMAIN collection : collection[id] = PayloadOfRow(i)

\* C4 witness: a three-row build returned with one row skipped for its
\* content, one for an embedding error, and one point in the collection.
C4_Witness ==
    /\ JustBuilt
    /\ build.outcomes = <<"not_text", "error", "ok">>
    /\ points_count(collection) = 1

\* C5: when no row yields a point, generate_collection issues no upsert,
\* logs that no valid documents were found and returns, and the recreated
\* collection is left with zero points.
C5_NothingToInsert ==
    (/\ build.pc \in {"done", "raised"}
     /\ build.log # <<>>
     /\ EmbeddedRows = {}) =>
        /\ build.pc = "done"
        /\ \A k \in DOMAIN build.calls : build.calls[k].op # "upsert"
        /\ Last(build.log) = "warning: No valid documents found to insert."
        /\ (store = NoStore => points_count(collection) = 0)

\* C5 witness: every document of a two-row corpus hit the size limit, after
\* an earlier build had filled the collection.
C5_Witness ==
    /\ JustBuilt
    /\ build.outcomes = <<"size_limit", "size_limit">>
    /\ build.dropped > 0
    /\ points_count(collection) = 0

\* C6: after a bulk build, a successful append never writes to an id that
\* an existing point holds: it adds one point to the collection.
C6_AppendAddsPoint ==
    [][(build.pc = "done" /\ nstores' = nstores + 1 /\ store'.stage = "stored")
          => points_count(collection') = points_count(collection) + 1]_vars

\* C7: the points a bulk build has emitted carry exactly the ids 1..K.
C7_DenseIds ==
    build.pc \in {"rows", "done"} => Ids(build.points) = 1..Len(build.points)

\* C8: the recreate is the first call of a build and the only one, and once
\* the build returns every point of the collection is derived from a row of
\* the current corpus that was embedded in this build: nothing written by an
\* earlier build or append survives.
C8_DestructiveRebuild ==
    /\ build.calls # <<>> =>
          /\ build.calls[1].op = "recreate_collection"
          /\ \A k \in DOMAIN build.calls :
                k > 1 => build.calls[k].op # "recreate_collection"
    /\ JustBuilt =>
          \A id \in DOMAIN collection :
              \E i \in EmbeddedRows : collection[id] = PayloadOfRow(i)

\* C8 witness: a rebuild returned after having discarded more points than
\* the corpus has rows (so a stored message among them), with a row skipped
\* that the earlier build had indexed.
C8_Witness ==
    /\ JustBuilt
    /\ nbuilds = 2
    /\ build.dropped > Len(df_docs)
    /\ SkippedRows # {}
    /\ EmbeddedRows # {}

\* C9: store_discord_message never raises: a failure of the count read, of
\* the embedding or of the upsert is caught and logged, and when it happens
\* before the upsert no upsert is issued and the collection is unchanged.
C9_StoreNeverRaises ==
    [][nstores' = nstores + 1 =>
          /\ ~store'.raised
          /\ store'.stage # "stored" =>
                Last(store'.log) = "exception: Failed to store Discord message"
          /\ store'.stage \in {"get_collection", "embed_content"} =>
                /\ collection' = collection
                /\ \A k \in DOMAIN store'.calls : store'.calls[k].op # "upsert"]_vars

\* C9 witness: the embedding call failed for a message while the collection
\* held points; the call returned.
C9_Witness ==
    /\ store.stage = "embed_content"
    /\ ~store.raised
    /\ points_count(collection) > 0

(***************************************************************************)
(* Claims about semantic_search                                            *)
(***************************************************************************)
Min(a, b) == IF a < b THEN a ELSE b

\* C10: semantic_search returns one result per hit, min(top_k, n) of them,
\* in the index's order, each with the hit's score, the payload's text (""
\* when absent) and a metadata mapping of the payload fields except `text`,
\* also for hits whose payload is absent or empty.
C10_ResultsMirrorHits ==
    search.status = "returned" =>
        /\ Len(search.output) = Min(search.top_k, points_count(collection))
        /\ Len(search.output) = Len(search.hits)
        /\ \A i \in DOMAIN search.hits :
            LET hit == search.hits[i]
                res == search.output[i]
                fields == hit.payload.fields
            IN /\ res.score = hit.score
               /\ res.text = IF "text" \in DOMAIN fields THEN fields["text"] ELSE ""
               /\ res.metadata.type = "dict"
               /\ DOMAIN res.metadata.value = DOMAIN fields \ {"text"}
               /\ \A f \in DOMAIN res.metadata.value :
                     res.metadata.value[f] = fields[f]

(***************************************************************************)
(* Claims about generate_response                                          *)
(***************************************************************************)
Responded == respond.impl # "none"

\* the document's metadata is a mapping that has a filename
HasFilename(doc) ==
    /\ "metadata" \in DOMAIN doc
    /\ doc["metadata"].type = "dict"
    /\ "filename" \in DOMAIN doc["metadata"].value

\* the header name of the n-th document: its filename, else Doc{n}
HeaderName(doc, n) ==
    IF HasFilename(doc) THEN doc["metadata"].value["filename"]
    ELSE "Doc" \o ToString(n)

\* the fixed list header, then header, text and blank line per document
RECURSIVE DocumentBlocks(_, _)
DocumentBlocks(docs, n) ==
    IF n = 0 THEN <<"List of retrieved documents:\n">>
    ELSE DocumentBlocks(docs, n - 1) \o
            <<"Document ", HeaderName(docs[n], n), ":\n", docs[n].text, "\n\n">>

UserPrompt(query, docs, cfg) ==
    DocumentBlocks(docs, Len(docs)) \o <<"User query: ", query, "\n", cfg.query_prompt>>

\* the user prompt an invocation handed to its generation capability
SentPrompt(inv) ==
    IF inv.calls = <<>> THEN NoPrompt
    ELSE IF inv.impl = "GeminiResponder" THEN inv.calls[1].content["prompt"]
    ELSE inv.calls[1].content["messages"][2].content

\* C11: for every query and every list of retrieved documents, whichever
\* responder is used, the user prompt it sends is the list header, then per
\* document in retrieval order "Document <filename or Doc{n}>:", its text and
\* a blank line, then the query, then the configured query_prompt.
C11_SamePromptBothResponders ==
    Responded =>
        SentPrompt(respond) = UserPrompt(respond.query, respond.docs, respond.cfg)

(***************************************************************************)
(* Claims about Prompt.format                                              *)
(***************************************************************************)
Formatted == fmt.called

\* the names listed in required_inputs (none when it is None)
RequiredNames ==
    { fmt.self.required_inputs.names[k] : k \in DOMAIN fmt.self.required_inputs.names }

Supplied == DOMAIN fmt.kwargs

\* C12: a format call on a prompt with non-empty required_inputs, at least
\* one of which is not among the keyword values, fails, and the failure
\* carries exactly the missing names; no formatted string is returned.
C12_MissingInputsFail ==
    (Formatted /\ RequiredNames # {} /\ RequiredNames \ Supplied # {}) =>
        /\ fmt.res.status = "raised"
        /\ fmt.res.missing = RequiredNames \ Supplied

C14_TransportFailureSurfaces ==
    /\ Routed =>
          /\ Len(route.calls) = 1
          /\ ~route.out.ok =>
                /\ route.res.status = "raised"
                /\ route.res.exc = "TransportError"
    /\ Responded =>
          /\ Len(respond.calls) <= 1
          /\ (respond.calls # <<>> /\ ~respond.out.ok) =>
                /\ respond.res.status = "raised"
                /\ respond.res.exc = "TransportError"

\* C14 witness: the generation call of a GeminiResponder failed and the
\* invocation raised after its single call.
C14_Witness ==
    /\ Responded
    /\ respond.impl = "GeminiResponder"
    /\ ~respond.out.ok
    /\ Len(respond.calls) = 1
    /\ respond.res.status = "raised"

\* the calls of a trace that went to the given operation
CallsTo(calls, op) == { k \in DOMAIN calls : calls[k].op = op }

\* C15: a semantic_search issues exactly one embedding call, first, and at
\* most one search call after it; it returns only after both calls, with one
\* result per hit of the collection; when the search call was not issued
\* (the embedding failed) or a call failed, it raises and returns no list.
C15_SearchFailuresPropagate ==
    search.status # "none" =>
        /\ search.calls[1].op = "embed_content"
        /\ Cardinality(CallsTo(search.calls, "embed_content")) = 1
        /\ Cardinality(CallsTo(search.calls, "search")) <= 1
        /\ Len(search.calls) = 1 => search.status = "raised"
        /\ search.status = "raised" => search.output = <<>>
        /\ search.status = "returned" =>
              /\ Len(search.calls) = 2
              /\ search.calls[2].op = "search"
              /\ Len(search.output) = Min(search.top_k, points_count(collection))

\* C15 witness: over a collection that holds points, the embedding call of
\* a search failed; no search call was issued and the search raised.
C15_Witness ==
    /\ search.status = "raised"
    /\ Len(search.calls) = 1
    /\ points_count(collection) > 0

\* C16: a failure of the recreate or of the batch upsert ends the build with
\* that failure: it is not logged as a skipped document, a build whose
\* recreate failed embeds nothing, and a build that returns after issuing
\* its upsert has written all its points.
C16_IndexFailuresAbort ==
    /\ Cardinality(SkipLogs) = Cardinality(SkippedRows)
    /\ (build.calls # <<>> /\ build.log = <<>>) =>
          /\ build.pc = "raised"
          /\ build.calls = <<Call("recreate_collection", "-", "-", "-", 0)>>
          /\ build.outcomes = <<>>
    /\ (build.pc = "done" /\ CallsTo(build.calls, "upsert") # {}) =>
          /\ Last(build.log) =
                "info: Collection generated and documents inserted into Qdrant successfully."
          /\ JustBuilt => points_count(collection) = Len(build.points)
    /\ build.pc = "raised" =>
          /\ Last(build.calls).op \in {"recreate_collection", "upsert"}
          /\ \A k \in DOMAIN build.log :
                build.log[k] \notin
                  { "info: Collection generated and documents inserted into Qdrant successfully.",
                    "warning: No valid documents found to insert." }

\* C16 witness: every row was embedded, the batch upsert failed, the build
\* raised and the recreated collection holds nothing.
C16_Witness ==
    /\ build.pc = "raised"
    /\ Last(build.calls).op = "upsert"
    /\ Len(build.points) = Len(df_docs)
    /\ Len(df_docs) > 1
    /\ points_count(collection) = 0

(***************************************************************************)
(* Claims about the embedding calls                                        *)
(***************************************************************************)
\* the embedding calls of a trace, in call order
RECURSIVE EmbedCalls(_)
EmbedCalls(calls) ==
    IF calls = <<>> THEN <<>>
    ELSE LET rest == EmbedCalls(SubSeq(calls, 1, Len(calls) - 1))
         IN IF Last(calls).op = "embed_content" THEN Append(rest, Last(calls))
            ELSE rest

\* the rows with text content among the first n rows, in corpus order
RECURSIVE TextRows(_)
TextRows(n) ==
    IF n = 0 THEN <<>>
    ELSE IF df_docs[n].content # NaN THEN Append(TextRows(n - 1), n)
         ELSE TextRows(n - 1)

\* C17: every embedding call of a bulk build has the document task-type and
\* the file name of its row as title; every embedding call of an append has
\* the document task-type and no title; every embedding call of a search
\* has the query task-type.
C17_TaskTypes ==
    /\ LET calls == EmbedCalls(build.calls)
           rows == TextRows(build.idx)
       IN /\ Len(calls) = Len(rows)
          /\ \A k \in DOMAIN calls :
                /\ calls[k].task_type = "RETRIEVAL_DOCUMENT"
                /\ calls[k].title = df_docs[rows[k]].file_name
    /\ \A k \in DOMAIN store.calls :
          store.calls[k].op = "embed_content" =>
              /\ store.calls[k].task_type = "RETRIEVAL_DOCUMENT"
              /\ store.calls[k].title = "None"
    /\ \A k \in DOMAIN search.calls :
          search.calls[k].op = "embed_content" =>
              search.calls[k].task_type = "RETRIEVAL_QUERY"

\* C17 witness: a build has embedded its two rows, a message was stored
\* after it and a search has then returned.
C17_Witness ==
    /\ Len(EmbedCalls(build.calls)) = 2
    /\ build.pc = "done"
    /\ store.stage = "stored"
    /\ search.status = "returned"

(***************************************************************************)
(* Claims about concurrent invocations                                     *)
(***************************************************************************)
\* what the invocation of a frame returns when it runs alone on the
\* components as constructed, with the responses the frame received
Alone(r) ==
    CASE r.obj \in Routers ->
            route_query(r.obj, InitComponents[r.obj].router_config, r.out)
      [] r.obj = "QdrantRetriever" ->
            IF r.out.embedded /\ r.out.searched
            THEN [status |-> "returned", output |-> output(r.out.hits)]
            ELSE [status |-> "raised", output |-> <<>>]
      [] OTHER ->
            generate_response(r.obj, InitComponents[r.obj].responder_config,
                              r.query, r.docs, r.out).res

\* C18: no invocation of route_query, semantic_search or generate_response
\* changes a field of its component, and in every interleaving each
\* invocation returns what it would return alone with the same responses.
C18_InvocationsIndependent ==
    /\ components = InitComponents
    /\ \A i \in Slots :
          requests[i].pc = "returned" => requests[i].res = Alone(requests[i])

\* C18 witness: two invocations of the same QueryRouter overlapped; one has
\* returned REJECT for its response while the other, entered with another
\* query, is still waiting for its own.
C18_Witness ==
    \E i, j \in Slots :
        /\ i # j
        /\ requests[i].obj = "QueryRouter"
        /\ requests[j].obj = "QueryRouter"
        /\ requests[i].pc = "returned"
        /\ requests[i].res = Returned(REJECT)
        /\ requests[j].pc = "generate"
        /\ requests[i].query # requests[j].query

(***************************************************************************)
(* Claims about a rebuild running beside queries                           *)
(***************************************************************************)
\* C19: between the recreate of a bulk build and its batch upsert the
\* collection is empty and nothing keeps a query out: every semantic_search
\* that falls in that window returns an empty list, whatever the collection
\* held before and whatever the build is about to write.
C19_SearchInRebuildWindow ==
    build.pc = "rows" =>
        /\ points_count(collection) = 0
        /\ search.status = "returned" => search.output = <<>>

\* C19 witness: a rebuild discarded a collection that held points and has
\* embedded every row again; a search issued before its upsert returned an
\* empty list.
C19_Witness ==
    /\ build.pc = "rows"
    /\ build.dropped > 0
    /\ build.idx = Len(df_docs)
    /\ Len(build.points) = Len(df_docs)
    /\ search.status = "returned"
    /\ search.output = <<>>

(***************************************************************************)
(* Claims about the chat session                                           *)
(***************************************************************************)
\* the chat session and the chat_history of every provider
Sessions == [p \in Providers |-> <<ai[p].chat, ai[p].chat_history>>]

\* C20: a GeminiRouter.route_query and a GeminiResponder.generate_response
\* make their one call through generate, never through send_message, and
\* the step of such an invocation leaves the chat session and the
\* chat_history of every provider as they were.
C20_SessionUntouched ==
    /\ [](/\ (Routed /\ route.impl = "GeminiRouter") =>
                \A k \in DOMAIN route.calls : route.calls[k].op = "generate"
          /\ (Responded /\ respond.impl = "GeminiResponder") =>
                \A k \in DOMAIN respond.calls : respond.calls[k].op = "generate")
    /\ [][(\/ route' # route /\ route'.impl = "GeminiRouter"
           \/ respond' # respond /\ respond'.impl = "GeminiResponder")
          => Sessions' = Sessions]_vars

\* C20 witness: base_ai has a chat session with an exchange in it, seeded
\* with a system entry, and a GeminiRouter.route_query has returned on it.
C20_Witness ==
    /\ Routed
    /\ route.impl = "GeminiRouter"
    /\ route.res.status = "returned"
    /\ ai["router"].chat.active
    /\ ai["router"].chat.turns > 0
    /\ ai["router"].chat_history # <<>>

(***************************************************************************)
(* Claims about the life cycle of the chat session                         *)
(***************************************************************************)
\* the system entry reset_model leaves in chat_history
SystemEntry(instruction) == [role |-> "system", content |-> instruction]

\* the step of a provider from a to b that keeps its active session: the
\* same model and seed, with at most one more exchange in it
Reused(a, b) ==
    /\ b.chat.model = a.chat.model
    /\ b.chat.history = a.chat.history
    /\ b.chat.turns \in {a.chat.turns, a.chat.turns + 1}
    /\ b.chat_history = a.chat_history
    /\ b.model = a.model

\* the step of a provider from a to b that starts a session: a session of
\* the provider's model seeded with its chat_history, holding at most the
\* exchange of the call that started it
Fresh(a, b) ==
    /\ b.chat.model = a.model
    /\ b.chat.history = a.chat_history
    /\ b.chat.turns \in {0, 1}
    /\ b.chat_history = a.chat_history
    /\ b.model = a.model

\* the step of a provider from a to b that leaves it without a session:
\* reset (empty history, same model) or reset_model (one system entry
\* holding the instruction of the new model)
Dropped(a, b) ==
    /\ b.chat = NoChat
    /\ \/ b.chat_history = <<>> /\ b.model = a.model
       \/ b.chat_history = <<SystemEntry(b.model.system_instruction)>>

\* C21: over any sequence of send_message, reset and reset_model calls a
\* session is started only when none is active, seeded with the provider's
\* chat_history, and is reused while it is active; reset leaves no session
\* and an empty history, reset_model no session and one system entry with
\* the new instruction.  So the active session is always the one started by
\* the first send_message after the last reset.
C21_SessionLifecycle ==
    /\ [](\A p \in Providers :
             ai[p].chat.active =>
                /\ ai[p].chat.history = ai[p].chat_history
                /\ ai[p].chat.model = ai[p].model)
    /\ [][\A p \in Providers :
             /\ (ai[p].chat.active /\ ai'[p].chat.active) =>
                    Reused(ai[p], ai'[p])
             /\ (~ai[p].chat.active /\ ai'[p].chat.active) =>
                    Fresh(ai[p], ai'[p])
             /\ (~ai'[p].chat.active /\ ai'[p] # ai[p]) =>
                    Dropped(ai[p], ai'[p])]_vars

\* C21 witness: after a reset_model, a session seeded with the system entry
\* has served two send_message calls.
C21_Witness ==
    /\ ai["router"].chat.active
    /\ ai["router"].chat.turns = 2
    /\ ai["router"].chat.history = <<SystemEntry(SYSTEM_INSTRUCTION)>>

(***************************************************************************)
(* Claims about the external calls of one generate_collection run          *)
(***************************************************************************)
\* C22: the calls of a run are one recreate, first; then one embedding call
\* per row with text content, in corpus order, none for a row without text
\* and no second one for a row whose embedding failed; then at most one
\* upsert, last, carrying every point produced, and issued exactly when a
\* point was produced.
C22_CallsOrderedAndBounded ==
    build.pc # "idle" =>
        LET calls == build.calls
            n == Len(calls)
            embeds == EmbedCalls(calls)
            rows == TextRows(build.idx)
            upserts == CallsTo(calls, "upsert")
        IN /\ CallsTo(calls, "recreate_collection") = {1}
           /\ upserts \subseteq {n}
           /\ \A k \in 2..n : k \notin upserts => calls[k].op = "embed_content"
           /\ Len(embeds) = Len(rows)
           /\ \A k \in DOMAIN embeds :
                 embeds[k].title = build.corpus[rows[k]].file_name
           /\ upserts # {} =>
                 /\ build.idx = Len(build.corpus)
                 /\ build.points # <<>>
                 /\ calls[n].n = Len(build.points)
                 /\ Len(build.points) = Cardinality(EmbeddedRows)
           /\ build.pc = "done" => (upserts # {} <=> build.points # <<>>)
           /\ (build.pc = "raised" /\ n > 1) => upserts # {}

\* C22 witness: a run over a row without text, a row whose embedding failed
\* and a row that was embedded has issued its upsert and returned.
C22_Witness ==
    /\ build.pc = "done"
    /\ \E i, j, k \in DOMAIN build.outcomes :
          /\ build.outcomes[i] = "not_text"
          /\ build.outcomes[j] = "error"
          /\ build.outcomes[k] = "ok"
    /\ Last(build.calls).op = "upsert"
    /\ Len(build.calls) = 4

(***************************************************************************)
(* Claims about the form of the classification response                    *)
(***************************************************************************)
\* the response of the routed invocation, with the same JSON in the other
\* form: wrapped in a ```json fence if it was raw, raw if it was fenced
OtherForm(out) == [out EXCEPT !.text.fenced = ~@]

\* C23: for either router, a response whose text is a JSON object and a
\* response that wraps the same JSON in a ```json fence yield the same
\* classification.
C23_FencedSameAsRaw ==
    (Routed /\ route.out.ok) =>
        route.res = route_query(route.impl, route.cfg, OtherForm(route.out))

(***************************************************************************)
(* Claims about the embedding model                                        *)
(***************************************************************************)
\* the embedding calls of the last build, the last append and the last search
IndexEmbedCalls ==
    { build.calls[k] : k \in CallsTo(build.calls, "embed_content") }
    \cup { store.calls[k] : k \in CallsTo(store.calls, "embed_content") }

QueryEmbedCalls ==
    { search.calls[k] : k \in CallsTo(search.calls, "embed_content") }

\* C24: for every RetrieverConfig, the query of a search is embedded by the
\* configured embedding_model, the model that embeds the documents of a
\* build and of an append, so its vector has the vector_size of the
\* collection.
C24_QueryEmbeddedByConfiguredModel ==
    /\ \A c \in IndexEmbedCalls \cup QueryEmbedCalls :
          /\ c.model = retriever_config.embedding_model
          /\ Dimension(c.model) = retriever_config.vector_size
    /\ \A q \in QueryEmbedCalls, d \in IndexEmbedCalls : q.model = d.model

(***************************************************************************)
(* Claims about the retriever's results as the responder's input           *)
(***************************************************************************)
\* C25: for every list of results a semantic_search returned, also one built
\* from hits with an absent or empty payload or a payload without filename,
\* generate_response builds its prompt and makes its generation call; it
\* raises at most what that call raises.
C25_ResultsAreValidResponderInput ==
    Responded =>
        /\ respond.prompt # NoPrompt
        /\ Len(respond.calls) = 1
        /\ respond.res.exc # "AttributeError"

(***************************************************************************)
(* Claims about what a query sees of a rebuild                             *)
(***************************************************************************)
\* the collection c holds the points of a batch, all of them and nothing else
HoldsExactly(c, points) ==
    /\ DOMAIN c = Ids(points)
    /\ \A k \in DOMAIN points : c[points[k].id] = points[k].payload

\* C26: with the recreate and the batch upsert atomic, a run of
\* generate_collection takes the collection from its previous contents to
\* empty and from empty to the complete set of the points it built, in two
\* steps and no other; a search reads the collection as it is at one of
\* these moments, so it sees the previous contents, nothing, or all new
\* points, never some of the new points or old and new points together.
C26_SearchSeesWholeStates ==
    /\ [](/\ build.pc = "rows" => collection = EmptyCollection
          /\ JustBuilt => HoldsExactly(collection, build.points))
    /\ [][/\ (collection' # collection /\ nstores' = nstores) =>
                \/ collection' = EmptyCollection
                \/ /\ collection = EmptyCollection
                   /\ build'.pc = "done"
                   /\ HoldsExactly(collection', build'.points)
          /\ (search' # search /\ search'.status = "returned") =>
                /\ collection' = collection
                /\ \E q \in Queries :
                      search'.hits = client_search(collection, q, search'.top_k)
                /\ build.pc = "rows" => search'.hits = <<>>]_vars

\* C26 witness: a second run has written its two points and a search after
\* its upsert returned both of them.
C26_Witness ==
    /\ JustBuilt
    /\ nbuilds = 2
    /\ build.dropped > 0
    /\ Len(build.points) = 2
    /\ search.status = "returned"
    /\ Len(search.hits) = 2

(***************************************************************************)
(* Claims about an append running beside a rebuild                         *)
(***************************************************************************)
\* the last store_discord_message upserted its point after the recreate of
\* the running build (GenerateStart forgets earlier calls)
AppendedInWindow == build.pc = "rows" /\ store.wrote

\* C27: when a build issues its batch upsert and returns, the point that a
\* store_discord_message upserted since the recreate of that build is still
\* in the collection, with the payload of its message.
C27_AppendSurvivesBuild ==
    [][(AppendedInWindow /\ build'.pc = "done") =>
          /\ store.next_id \in DOMAIN collection'
          /\ collection'[store.next_id] = discord_payload(store.msg)]_vars

(***************************************************************************)
(* Claims about the Discord message handler                                *)
(***************************************************************************)
Handled == message.author # "none"

\* the handler's store_discord_message call upserted the point of the message
Written ==
    /\ message.store_called
    /\ message.store.wrote
    /\ message.store.msg = message.content

\* C28: a message that is not the bot's own and does not start with !norag
\* is written to the index (authorized author, upsert performed) or
\* forwarded to the chat endpoint; forwarding is skipped only when the point
\* was really upserted; a message of the bot or with the !norag prefix is
\* never stored.
C28_NoMessageDropped ==
    Handled =>
        /\ (message.author # Bot /\ ~startswith_norag(message.content)) =>
              \/ Written /\ message.author \in AUTHORIZED_USER_IDS
              \/ message.posted
        /\ message.stored_successfully => Written
        /\ (message.author = Bot \/ startswith_norag(message.content)) =>
              ~message.store_called

====
